---- MODULE Spec2Model ----
(***************************************************************************)
(* Model of the snapback splitter pipeline (src/splitter.py): media        *)
(* classification, day bucketing, the two correlation passes and the       *)
(* per-day output assembly, driven in the order of main().                 *)
(*                                                                         *)
(* Representation.                                                         *)
(*  - A calendar day is a positive integer; a 10-character prefix that is  *)
(*    not a calendar date is 0.                                            *)
(*  - A file name is a record [day, id, marks]: its date prefix, the rest  *)
(*    of its text (an integer, ordered as the text is ordered) and the     *)
(*    set of marker substrings the code tests for.  Names of one listing   *)
(*    differ in (day, id).                                                 *)
(*  - A file is [name, mtime], mtime in milliseconds.                      *)
(*  - A "Media IDs" field is the sequence of its comma-separated parts;    *)
(*    the empty string is the empty sequence.                              *)
(*  - A message carries uid, the identity of the Python dict object.       *)
(*                                                                         *)
(* Two functions are also modelled on their own: get_local_mtime           *)
(* (src/splitter.py) over byte sequences, in SpecMtime, and                *)
(* generate_bitmoji_assets (src/bitmoji.py) with its worker threads, in    *)
(* SpecAvatars.  A byte is an integer 0 .. 255 and a user name is the      *)
(* sequence of its code points.                                            *)
(***************************************************************************)
EXTENDS Integers, Sequences, FiniteSets, TLC

VARIABLES
    pc,             \* position of main()
    nZips,          \* number of *.zip files in input/
    hasHistory,     \* chat_history.json and snap_history.json were extracted
    chat_data,      \* chat_history.json: sequence of [cid, msgs]
    snap_data,      \* snap_history.json: sequence of [cid, msgs]
    listing,        \* media_dir.iterdir(): sequence of files
    gone,           \* names deleted from the workspace during the run
    b_lookup,       \* identifier -> file, in insertion order: seq of [mid, f]
    other_files,    \* sequence of files
    overlay_pairs,  \* set of [p |-> primary name, o |-> overlay file]
    days,           \* day -> sequence of [cid, msgs] (empty: no such key)
    matched_b,      \* identifiers consumed by pass 1
    len1,           \* uid -> number of names pass 1 appended (history)
    ts_files,       \* pass-2 candidates: sequence of [day, mtime_ms, f]
    ts_i,           \* number of candidates pass 2 has handled
    log,            \* the outcomes of the pass-2 iterations so far (history)
    docs,           \* day -> conversations.json document written (or NoDoc)
    outFs,          \* files under output/days: set of [day, dir, name]
    prevDocs,       \* docs of the previous write_output run (history)
    prevFs,         \* outFs of the previous write_output run (history)
    runs,           \* number of write_output runs so far
    mpc,            \* position of get_local_mtime
    raw,            \* the archive at the entry's local header
    info,           \* the entry's ZipInfo: [date_time]
    tz,             \* seconds the local zone is ahead of UTC
    extra,          \* get_local_mtime: the bytes of the extra-field area
    ex_i,           \* get_local_mtime: the cursor i
    mtime,          \* get_local_mtime: the value returned, [set, v]
    apc,            \* position of generate_bitmoji_assets
    usernames,      \* the set of usernames passed in
    fetch_ok,       \* the usernames whose snapcode fetch succeeds
    futures,        \* submitted get_avatar calls that have not completed
    avatars,        \* get_all_avatars: username -> [set, status]
    used_names,     \* save_avatars: candidate -> [set, owner]
    user_to_path,   \* save_avatars: username -> [set, path]
    save_i          \* save_avatars: usernames of sorted(avatars) handled

mainVars == << pc, nZips, hasHistory, chat_data, snap_data, listing, gone,
               b_lookup, other_files, overlay_pairs, days, matched_b, len1,
               ts_files, ts_i, log, docs, outFs, prevDocs, prevFs, runs >>

mtimeVars == << mpc, raw, info, tz, extra, ex_i, mtime >>

avatarVars == << apc, usernames, fetch_ok, futures, avatars, used_names,
                 user_to_path, save_i >>

vars == << mainVars, mtimeVars, avatarVars >>

----------------------------------------------------------------------------
(* Bounds of the model *)

MaxMsgs == 2
MaxFiles == 2
MaxListing == 7
MaxRuns == 2

(* Program constants *)

Threshold == 30000
Penalty == 5000

Days == 1 .. 3

----------------------------------------------------------------------------
(* Generic sequence helpers *)

Range(s) == { s[i] : i \in 1 .. Len(s) }

RECURSIVE Concat(_)
Concat(ss) == IF ss = << >> THEN << >> ELSE Head(ss) \o Concat(Tail(ss))

RECURSIVE Sum(_)
Sum(s) == IF s = << >> THEN 0 ELSE Head(s) + Sum(Tail(s))

----------------------------------------------------------------------------
(* File names *)

Name(d, i, ms) == [day |-> d, id |-> i, marks |-> ms]
File(d, i, ms, t) == [name |-> Name(d, i, ms), mtime |-> t]

\* f.name[:10]
DayPrefix(n) == n.day

\* date.fromisoformat(day) does not raise
IsCalendarDate(d) == d >= 1

\* key=lambda x: x.name, for names of one listing
NameLess(a, b) == a.day < b.day \/ (a.day = b.day /\ a.id < b.id)

\* the elif chain of classify_media
Excluded(n) == "thumbnail" \in n.marks
IsOverlay(n) == "_overlay~" \in n.marks
IsPrimary(n) == ~IsOverlay(n) /\ "_media~" \in n.marks
IsB(n) == ~IsOverlay(n) /\ ~IsPrimary(n) /\ "_b~" \in n.marks
IsZip(n) == "~zip-" \in n.marks

\* An identifier is [npre, id]: the text id behind npre copies of "b~".
\* m.group(1) of re.search(r"_b~(.+)\.\w+$", f.name)
Ident(n) == [npre |-> 0, id |-> n.id]

Kind(n) ==
    IF IsOverlay(n) THEN (IF IsZip(n) THEN "overlay_zip" ELSE "overlay")
    ELSE IF IsPrimary(n) THEN (IF IsZip(n) THEN "media_zip" ELSE "media")
    ELSE IF IsB(n) THEN "b" ELSE "none"

----------------------------------------------------------------------------
(* classify_media *)

RECURSIVE InsertSorted(_, _)
InsertSorted(f, s) ==
    IF s = << >> THEN << f >>
    ELSE IF NameLess(f.name, Head(s).name) THEN << f >> \o s
    ELSE << Head(s) >> \o InsertSorted(f, Tail(s))

\* sorted(fs, key=lambda x: x.name); stable
RECURSIVE SortByName(_)
SortByName(fs) ==
    IF fs = << >> THEN << >>
    ELSE InsertSorted(fs[Len(fs)], SortByName(SubSeq(fs, 1, Len(fs) - 1)))

Kept(fs) == SelectSeq(fs, LAMBDA f : ~Excluded(f.name))

\* groups[day][kind]
GroupList(fs, d, k) ==
    SelectSeq(Kept(fs), LAMBDA f : DayPrefix(f.name) = d /\ Kind(f.name) = k)

OverlayKind(kind) == IF kind = "media" THEN "overlay" ELSE "overlay_zip"

PairsOfUnchecked(g_ms, g_os) ==
    LET ms == SortByName(g_ms)
        os == SortByName(g_os)
        n  == IF Len(ms) < Len(os) THEN Len(ms) ELSE Len(os)
    IN  { [p |-> ms[i].name, o |-> os[i]] : i \in 1 .. n }

\* if ms and len(ms) == len(os_): overlay_pairs.update(dict(zip(...)))
PairsOf(g_ms, g_os) ==
    LET ms == SortByName(g_ms)
        os == SortByName(g_os)
    IN  IF Len(ms) > 0 /\ Len(ms) = Len(os)
        THEN { [p |-> ms[i].name, o |-> os[i]] : i \in 1 .. Len(ms) }
        ELSE {}

OverlayPairs(fs) ==
    UNION { PairsOf(GroupList(fs, d, k), GroupList(fs, d, OverlayKind(k))) :
            d \in { DayPrefix(f.name) : f \in Range(fs) },
            k \in { "media", "media_zip" } }

\* b_lookup[m.group(1)] = f: a later file of the same identifier replaces the
\* value and keeps the key's place
RECURSIVE PutB(_, _, _)
PutB(bl, mid, f) ==
    IF bl = << >> THEN << [mid |-> mid, f |-> f] >>
    ELSE IF Head(bl).mid = mid THEN << [mid |-> mid, f |-> f] >> \o Tail(bl)
    ELSE << Head(bl) >> \o PutB(Tail(bl), mid, f)

RECURSIVE BLookup(_)
BLookup(fs) ==
    IF fs = << >> THEN << >>
    ELSE LET f == fs[Len(fs)]
             rest == BLookup(SubSeq(fs, 1, Len(fs) - 1))
         IN  IF IsB(f.name) THEN PutB(rest, Ident(f.name), f) ELSE rest

OtherFiles(fs) == SelectSeq(Kept(fs), LAMBDA f : IsPrimary(f.name))

BKeys(bl) == { bl[i].mid : i \in 1 .. Len(bl) }
BGet(bl, mid) == (CHOOSE e \in Range(bl) : e.mid = mid).f
BValues(bl) == [ i \in 1 .. Len(bl) |-> bl[i].f ]

ClassifyMedia ==
    /\ pc = "classify"
    /\ b_lookup' = BLookup(Kept(listing))
    /\ other_files' = OtherFiles(listing)
    /\ overlay_pairs' = OverlayPairs(listing)
    /\ pc' = "build"
    /\ UNCHANGED << mtimeVars, avatarVars >>
    /\ UNCHANGED << nZips, hasHistory, chat_data, snap_data, listing, gone,
                    days, matched_b, len1, ts_files, ts_i, log, docs, outFs,
                    prevDocs, prevFs, runs >>

----------------------------------------------------------------------------
(* Messages *)

NoAnn == [set |-> FALSE, media_locations |-> << >>,
          matched_media_files |-> << >>, mapping_method |-> "",
          is_grouped |-> FALSE]

\* A raw message of a history file; Type is "" until build_days sets it
RawMsg(has, d, t, field) ==
    [uid |-> << >>, Type |-> "", has_created |-> has, day |-> d, us |-> t,
     mids |-> field, media_filenames |-> << >>, ann |-> NoAnn]

\* One comma-separated part of a "Media IDs" field
Tok(n, i) == [blank |-> FALSE, npre |-> n, id |-> i]
BlankTok == [blank |-> TRUE, npre |-> 0, id |-> 0]

\* i.strip().removeprefix("b~")
StripPrefix(t) == [npre |-> IF t.npre > 0 THEN t.npre - 1 ELSE 0, id |-> t.id]

\* [i.strip().removeprefix("b~") for i in field.split(",") if i.strip()]
ParseIds(field) ==
    LET parts == SelectSeq(field, LAMBDA t : ~t.blank)
    IN  [ i \in 1 .. Len(parts) |-> StripPrefix(parts[i]) ]

\* m.get("Media IDs", "").strip() is not empty
FieldNonEmpty(field) == Len(field) >= 2 \/ (Len(field) = 1 /\ ~field[1].blank)

\* "-" in c_id
IsGroupId(cid) == cid \in { "g-1" }

----------------------------------------------------------------------------
(* build_days *)

Bucket(ds, d) == IF d \in DOMAIN ds THEN ds[d] ELSE << >>

RECURSIVE AppendToConv(_, _, _)
AppendToConv(convs, cid, m) ==
    IF convs = << >> THEN << [cid |-> cid, msgs |-> << m >>] >>
    ELSE IF Head(convs).cid = cid
    THEN << [cid |-> cid, msgs |-> Append(Head(convs).msgs, m)] >> \o Tail(convs)
    ELSE << Head(convs) >> \o AppendToConv(Tail(convs), cid, m)

AddMsgOverwriting(ds, cid, m) ==
    [ds EXCEPT ![m.day] = SelectSeq(@, LAMBDA c : c.cid # cid)
                          \o << [cid |-> cid, msgs |-> << m >>] >>]

\* days[m["Created"][:10]][c_id].append(m)
AddMsg(ds, cid, m) == [ds EXCEPT ![m.day] = AppendToConv(ds[m.day], cid, m)]

\* m["Type"] = "message"
ChatMsg(m) == [m EXCEPT !.Type = "message"]

\* {k: m.get(k) for k in SNAP_KEYS} | SNAP_DEFAULTS
SnapMsg(m) == [m EXCEPT !.Type = "snap", !.mids = << >>]

\* The (cid, message) pairs of a collection, in iteration order
Flatten(data) ==
    Concat([ c \in 1 .. Len(data) |->
             [ k \in 1 .. Len(data[c].msgs) |->
               [cid |-> data[c].cid, m |-> data[c].msgs[k]] ] ])

InputPairs ==
    [ i \in 1 .. Len(Flatten(chat_data)) |->
        [cid |-> Flatten(chat_data)[i].cid, m |-> ChatMsg(Flatten(chat_data)[i].m)] ]
    \o
    [ i \in 1 .. Len(Flatten(snap_data)) |->
        [cid |-> Flatten(snap_data)[i].cid, m |-> SnapMsg(Flatten(snap_data)[i].m)] ]

RECURSIVE BuildFrom(_, _)
BuildFrom(ds, pairs) ==
    IF pairs = << >> THEN ds
    ELSE BuildFrom(AddMsg(ds, Head(pairs).cid, Head(pairs).m), Tail(pairs))

EmptyDays == [ d \in Days |-> << >> ]

\* m["Created"] raises KeyError for a message without the field
BuildDays ==
    /\ pc = "build"
    /\ IF \A i \in 1 .. Len(InputPairs) : InputPairs[i].m.has_created
       THEN /\ days' = BuildFrom(EmptyDays, InputPairs)
            /\ pc' = "pass1"
       ELSE /\ days' = days
            /\ pc' = "crashed"
    /\ UNCHANGED << mtimeVars, avatarVars >>
    /\ UNCHANGED << nZips, hasHistory, chat_data, snap_data, listing, gone,
                    b_lookup, other_files, overlay_pairs, matched_b, len1,
                    ts_files, ts_i, log, docs, outFs, prevDocs, prevFs, runs >>

\* All messages of the day structure, in iteration order
AllMsgs(ds) ==
    Concat([ d \in Days |-> Concat([ c \in 1 .. Len(ds[d]) |-> ds[d][c].msgs ]) ])

----------------------------------------------------------------------------
(* match_media, pass 1: by media ID *)

RECURSIVE InsertByCreated(_, _)
InsertByCreated(m, s) ==
    IF s = << >> THEN << m >>
    ELSE IF m.us < Head(s).us THEN << m >> \o s
    ELSE << Head(s) >> \o InsertByCreated(m, Tail(s))

\* msgs.sort(key=lambda x: x.get("Created(microseconds)", 0)); stable
RECURSIVE SortByCreated(_)
SortByCreated(msgs) ==
    IF msgs = << >> THEN << >>
    ELSE InsertByCreated(msgs[Len(msgs)],
                         SortByCreated(SubSeq(msgs, 1, Len(msgs) - 1)))

\* the identifiers of a message that are keys of b_lookup, in field order
KnownIds(bl, m) == SelectSeq(ParseIds(m.mids), LAMBDA mid : mid \in BKeys(bl))

\* m.setdefault("media_filenames", []).append(b_lookup[mid].name), per mid
MatchIds(bl, m) ==
    LET ks == KnownIds(bl, m)
    IN  [m EXCEPT !.media_filenames =
            @ \o [ i \in 1 .. Len(ks) |-> BGet(bl, ks[i]).name ]]

Pass1Days(bl, ds) ==
    [ d \in DOMAIN ds |->
        [ c \in 1 .. Len(ds[d]) |->
            [cid  |-> ds[d][c].cid,
             msgs |-> LET sorted == SortByCreated(ds[d][c].msgs)
                      IN  [ k \in 1 .. Len(sorted) |-> MatchIds(bl, sorted[k]) ]] ] ]

NoIdsConsumed(bl, ds) == {}

\* matched_b.add(mid)
ConsumedIds(bl, ds) ==
    UNION { Range(KnownIds(bl, AllMsgs(ds)[i])) : i \in 1 .. Len(AllMsgs(ds)) }

TsEntry(f) == [day |-> DayPrefix(f.name), mtime_ms |-> f.mtime, f |-> f]

\* ts_files: the unconsumed files of b_lookup, then other_files
Candidates(bl, consumed, others) ==
    LET left == SelectSeq(bl, LAMBDA e : e.mid \notin consumed)
    IN  [ i \in 1 .. Len(left) |-> TsEntry(left[i].f) ]
        \o [ i \in 1 .. Len(others) |-> TsEntry(others[i]) ]

\* f.stat() raises FileNotFoundError for a candidate that is no longer on disk
MatchById ==
    /\ pc = "pass1"
    /\ days' = Pass1Days(b_lookup, days)
    /\ matched_b' = ConsumedIds(b_lookup, days)
    /\ len1' = [ u \in { AllMsgs(days')[i].uid : i \in 1 .. Len(AllMsgs(days')) } |->
                 Len((CHOOSE m \in Range(AllMsgs(days')) : m.uid = u).media_filenames) ]
    /\ ts_files' = Candidates(b_lookup, matched_b', other_files)
    /\ ts_i' = 0
    /\ pc' = IF \E i \in 1 .. Len(ts_files') : ts_files'[i].f.name \in gone
             THEN "crashed"
             ELSE IF Len(ts_files') = 0 THEN "write" ELSE "pass2"
    /\ UNCHANGED << mtimeVars, avatarVars >>
    /\ UNCHANGED << nZips, hasHistory, chat_data, snap_data, listing, gone,
                    b_lookup, other_files, overlay_pairs, log, docs, outFs,
                    prevDocs, prevFs, runs >>

----------------------------------------------------------------------------
(* match_media, pass 2: by timestamp proximity *)

Abs(x) == IF x < 0 THEN -x ELSE x

\* the messages of one day, in iteration order, as positions [d, c, k]
DayPositions(ds, d) ==
    Concat([ c \in 1 .. Len(Bucket(ds, d)) |->
             [ k \in 1 .. Len(ds[d][c].msgs) |-> [d |-> d, c |-> c, k |-> k] ] ])

\* for offset in (0, -1, 1): for msgs in days.get(target, {}).values(): for m in msgs
Encounter(ds, day) ==
    DayPositions(ds, day) \o DayPositions(ds, day - 1) \o DayPositions(ds, day + 1)

MsgAt(ds, p) == ds[p.d][p.c].msgs[p.k]

\* real_diff = abs(m.get("Created(microseconds)", 0) - mtime_ms)
RealDiff(m, mtime_ms) == Abs(m.us - mtime_ms)

RankedNoPenalty(m, mtime_ms) == RealDiff(m, mtime_ms)

\* ranked_diff = real_diff + len(m.get("media_filenames", [])) * 5_000
Ranked(m, mtime_ms) == RealDiff(m, mtime_ms) + Len(m.media_filenames) * Penalty

NoBest == [set |-> FALSE, pos |-> << >>, ranked |-> 0, real |-> 0]

RECURSIVE BestOfLatest(_, _, _, _)
BestOfLatest(ds, mtime_ms, poss, best) ==
    IF poss = << >> THEN best
    ELSE LET m == MsgAt(ds, Head(poss))
             r == Ranked(m, mtime_ms)
         IN  BestOfLatest(ds, mtime_ms, Tail(poss),
                          IF ~best.set \/ r <= best.ranked
                          THEN [set |-> TRUE, pos |-> Head(poss), ranked |-> r,
                                real |-> RealDiff(m, mtime_ms)]
                          ELSE best)

\* if ranked_diff < best_diff: best, best_diff, best_real = m, ranked_diff, real_diff
RECURSIVE BestOf(_, _, _, _)
BestOf(ds, mtime_ms, poss, best) ==
    IF poss = << >> THEN best
    ELSE LET m == MsgAt(ds, Head(poss))
             r == Ranked(m, mtime_ms)
         IN  BestOf(ds, mtime_ms, Tail(poss),
                    IF ~best.set \/ r < best.ranked
                    THEN [set |-> TRUE, pos |-> Head(poss), ranked |-> r,
                          real |-> RealDiff(m, mtime_ms)]
                    ELSE best)

AcceptsRanked(best) == best.set /\ best.ranked <= Threshold

\* if best and best_real <= 30_000
Accepts(best) == best.set /\ best.real <= Threshold

AppendAt(ds, p, n) ==
    [ds EXCEPT ![p.d][p.c].msgs[p.k].media_filenames = Append(@, n)]

\* one iteration of the loop over ts_files;
\* date.fromisoformat(day) raises ValueError when the prefix is no date
MatchByTimestamp ==
    /\ pc = "pass2"
    /\ ts_i < Len(ts_files)
    /\ LET e == ts_files[ts_i + 1]
       IN  IF ~IsCalendarDate(e.day)
           THEN /\ pc' = "crashed"
                /\ UNCHANGED << days, ts_i, log >>
           ELSE LET best == BestOf(days, e.mtime_ms, Encounter(days, e.day), NoBest)
                IN  /\ days' = IF Accepts(best)
                               THEN AppendAt(days, best.pos, e.f.name)
                               ELSE days
                    /\ log' = Append(log, [e |-> e, best |-> best,
                                            before |-> days, after |-> days'])
                    /\ ts_i' = ts_i + 1
                    /\ pc' = IF ts_i' = Len(ts_files) THEN "write" ELSE "pass2"
    /\ UNCHANGED << mtimeVars, avatarVars >>
    /\ UNCHANGED << nZips, hasHistory, chat_data, snap_data, listing, gone,
                    b_lookup, other_files, overlay_pairs, matched_b, len1,
                    ts_files, docs, outFs, prevDocs, prevFs, runs >>

----------------------------------------------------------------------------
(* write_output *)

\* all_media_files = list(b_lookup.values()) + other_files
AllMediaFiles(bl, others) == BValues(bl) \o others

\* media_by_day[f.name[:10]][f.name] = f, as the set of the day's names
MediaByDay(bl, others, d) ==
    { f.name : f \in { g \in Range(AllMediaFiles(bl, others)) : DayPrefix(g.name) = d } }

RECURSIVE SortNames(_)
SortNames(ns) ==
    IF ns = {} THEN << >>
    ELSE LET least == CHOOSE n \in ns : \A o \in ns \ { n } : NameLess(n, o)
         IN  << least >> \o SortNames(ns \ { least })

PairKeys(pairs) == { q.p : q \in pairs }
PairOverlay(pairs, n) == (CHOOSE q \in pairs : q.p = n).o

\* the names of a matched list whose file exists: if not src.exists(): continue
Present(m, missing) == SelectSeq(m.media_filenames, LAMBDA n : n \notin missing)

\* rel_path and the entry of matched_files: the bare file, or its stem's folder
Located(pairs, n) == [name |-> n, stem |-> n \in PairKeys(pairs)]

MappingMethod(m) == IF FieldNonEmpty(m.mids) THEN "media_id" ELSE "timestamp"

AnnotateAccumulating(m, pairs, missing) ==
    LET ps == Present(m, missing)
        locs == [ i \in 1 .. Len(ps) |-> Located(pairs, ps[i]) ]
    IN  IF ps = << >> THEN m
        ELSE [m EXCEPT !.ann =
                [set |-> TRUE,
                 media_locations |-> m.ann.media_locations \o locs,
                 matched_media_files |-> m.ann.matched_media_files \o locs,
                 mapping_method |-> MappingMethod(m),
                 is_grouped |-> \E i \in 1 .. Len(ps) : ps[i] \in PairKeys(pairs)]]

\* if rel_paths: m["media_locations"] = rel_paths; ... (lines 325-329)
Annotate(m, pairs, missing) ==
    LET ps == Present(m, missing)
        locs == [ i \in 1 .. Len(ps) |-> Located(pairs, ps[i]) ]
    IN  IF ps = << >> THEN m
        ELSE [m EXCEPT !.ann =
                [set |-> TRUE,
                 media_locations |-> locs,
                 matched_media_files |-> locs,
                 mapping_method |-> MappingMethod(m),
                 is_grouped |-> \E i \in 1 .. Len(ps) : ps[i] \in PairKeys(pairs)]]

\* the copies made for one matched name: into media/, or with its overlay into
\* media/<stem>/
CopiesOf(d, pairs, n) ==
    IF n \in PairKeys(pairs)
    THEN { [day |-> d, dir |-> "media", grouped |-> TRUE, of |-> n, name |-> n],
           [day |-> d, dir |-> "media", grouped |-> TRUE, of |-> n,
            name |-> PairOverlay(pairs, n).name] }
    ELSE { [day |-> d, dir |-> "media", grouped |-> FALSE, of |-> n, name |-> n] }

OrphanCopy(d, n) ==
    [day |-> d, dir |-> "orphaned", grouped |-> FALSE, of |-> n, name |-> n]

DayMsgs(convs) == Concat([ c \in 1 .. Len(convs) |-> convs[c].msgs ])

\* the names copied for the day's messages, with repetition (day_media_count)
DayCopied(convs, missing) ==
    Concat([ i \in 1 .. Len(DayMsgs(convs)) |-> Present(DayMsgs(convs)[i], missing) ])

\* day_mapped
DayMapped(convs, missing) == Range(DayCopied(convs, missing))

\* for fname, f in sorted(media_by_day.get(day, {}).items()):
\*     if fname not in day_mapped
Orphans(ds, bl, others, d, missing) ==
    SortNames(MediaByDay(bl, others, d) \ DayMapped(ds[d], missing))

AnnotatedConvs(convs, pairs, missing) ==
    [ c \in 1 .. Len(convs) |->
        [cid |-> convs[c].cid,
         msgs |-> [ k \in 1 .. Len(convs[c].msgs) |->
                    Annotate(convs[c].msgs[k], pairs, missing) ]] ]

NoDoc == [written |-> FALSE, date |-> 0, conversationCount |-> 0,
          messageCount |-> 0, mediaCount |-> 0, conversations |-> << >>,
          orphaned_media_count |-> 0, orphaned_media |-> << >>]

ConvEntry(conv) ==
    [id |-> conv.cid,
     conversation_type |-> IF IsGroupId(conv.cid) THEN "group" ELSE "individual",
     messages |-> conv.msgs]

\* day_data (lines 359-371)
DayDoc(ds, bl, others, pairs, d, missing) ==
    LET convs == AnnotatedConvs(ds[d], pairs, missing)
        orph  == Orphans(ds, bl, others, d, missing)
    IN  [written |-> TRUE, date |-> d,
         conversationCount |-> Len(convs),
         messageCount |-> Len(DayMsgs(convs)),
         mediaCount |-> Len(DayCopied(ds[d], missing)),
         conversations |-> [ c \in 1 .. Len(convs) |-> ConvEntry(convs[c]) ],
         orphaned_media_count |-> Len(orph),
         orphaned_media |-> orph]

DayFiles(ds, bl, others, pairs, d, missing) ==
    UNION { CopiesOf(d, pairs, n) : n \in DayMapped(ds[d], missing) }
    \cup { OrphanCopy(d, n) : n \in Range(Orphans(ds, bl, others, d, missing)) }

\* sorted(days.items())
DayKeys(ds) == { d \in DOMAIN ds : ds[d] # << >> }

\* shutil.copy2 raises FileNotFoundError for an overlay or an orphan that is no
\* longer on disk
CopyFails(ds, bl, others, pairs, missing) ==
    \E d \in DayKeys(ds) :
        \/ \E n \in DayMapped(ds[d], missing) :
              n \in PairKeys(pairs) /\ PairOverlay(pairs, n).name \in missing
        \/ \E n \in Range(Orphans(ds, bl, others, d, missing)) : n \in missing

\* The body of write_output.  The partial output of an aborted run is not
\* modelled: output/days is left wiped.
WriteOutputBody ==
    IF CopyFails(days, b_lookup, other_files, overlay_pairs, gone)
    THEN /\ pc' = "crashed"
         /\ outFs' = {}
         /\ docs' = [ d \in Days |-> NoDoc ]
         /\ UNCHANGED << days, prevDocs, prevFs, runs >>
    ELSE /\ pc' = "avatars"
         /\ days' = [ d \in DOMAIN days |->
                      AnnotatedConvs(days[d], overlay_pairs, gone) ]
         /\ docs' = [ d \in Days |->
                      IF d \in DayKeys(days)
                      THEN DayDoc(days, b_lookup, other_files, overlay_pairs, d, gone)
                      ELSE NoDoc ]
         /\ outFs' = UNION { DayFiles(days, b_lookup, other_files, overlay_pairs,
                                      d, gone) : d \in DayKeys(days) }
         /\ prevDocs' = docs
         /\ prevFs' = outFs
         /\ runs' = runs + 1

\* the call of write_output in main()
WriteOutput ==
    /\ pc = "write"
    /\ WriteOutputBody
    /\ UNCHANGED << mtimeVars, avatarVars >>
    /\ UNCHANGED << nZips, hasHistory, chat_data, snap_data, listing, gone,
                    b_lookup, other_files, overlay_pairs, matched_b, len1,
                    ts_files, ts_i, log >>

\* write_output run again on the day structure and inventory it has just used
WriteOutputAgain ==
    /\ pc = "avatars"
    /\ runs < MaxRuns
    /\ WriteOutputBody
    /\ UNCHANGED << mtimeVars, avatarVars >>
    /\ UNCHANGED << nZips, hasHistory, chat_data, snap_data, listing, gone,
                    b_lookup, other_files, overlay_pairs, matched_b, len1,
                    ts_files, ts_i, log >>

----------------------------------------------------------------------------
(* main *)

\* extract_zips: sys.exit when input/ holds no zip file
ExtractZips ==
    /\ pc = "extract"
    /\ pc' = IF nZips = 0 THEN "exit" ELSE "load"
    /\ UNCHANGED << mtimeVars, avatarVars >>
    /\ UNCHANGED << nZips, hasHistory, chat_data, snap_data, listing, gone,
                    b_lookup, other_files, overlay_pairs, days, matched_b, len1,
                    ts_files, ts_i, log, docs, outFs, prevDocs, prevFs, runs >>

\* json.loads((json_dir / "chat_history.json").read_text(...)) raises
\* FileNotFoundError when the archives held no history file
LoadHistory ==
    /\ pc = "load"
    /\ pc' = IF hasHistory THEN "classify" ELSE "crashed"
    /\ UNCHANGED << mtimeVars, avatarVars >>
    /\ UNCHANGED << nZips, hasHistory, chat_data, snap_data, listing, gone,
                    b_lookup, other_files, overlay_pairs, days, matched_b, len1,
                    ts_files, ts_i, log, docs, outFs, prevDocs, prevFs, runs >>

\* generate_bitmoji_assets(usernames, output_root) takes two parameters
AvatarParams == << "usernames", "output_root" >>
\* generate_bitmoji_assets(valid_usernames, out, progress)
AvatarArgs == << "valid_usernames", "out", "progress" >>

\* The call at line 416 raises TypeError: main() never reaches the write of
\* index.json
GenerateAvatars ==
    /\ pc = "avatars"
    /\ pc' = IF Len(AvatarArgs) = Len(AvatarParams) THEN "index" ELSE "crashed"
    /\ UNCHANGED << mtimeVars, avatarVars >>
    /\ UNCHANGED << nZips, hasHistory, chat_data, snap_data, listing, gone,
                    b_lookup, other_files, overlay_pairs, days, matched_b, len1,
                    ts_files, ts_i, log, docs, outFs, prevDocs, prevFs, runs >>

----------------------------------------------------------------------------
(* get_local_mtime *)

MaxRecords == 2

\* the tag 0x5455 of the extended-timestamp extra field
ExtTimestampTag == 21589

\* struct.pack("<H", x)
PackU16(x) == << x % 256, x \div 256 >>

\* struct.unpack_from("<H", b, off)[0]; off counts from 0 as in Python
UnpackU16(b, off) == b[off + 1] + 256 * b[off + 2]

UnpackU32BigEndian(b, off) ==
    16777216 * b[off + 1] + 65536 * b[off + 2] + 256 * b[off + 3] + b[off + 4]

\* struct.unpack_from("<I", b, off)[0]
UnpackU32(b, off) ==
    b[off + 1] + 256 * b[off + 2] + 65536 * b[off + 3] + 16777216 * b[off + 4]

\* the exceptions the body of the try block can raise
StructError == "struct.error"
IndexError == "IndexError"

\* except Exception: both are subclasses of Exception
Caught == { StructError, IndexError }

\* time.mktime(info.date_time + (0, 0, -1)): the stored date-time, read as
\* wall-clock time of the local zone, in seconds since the epoch
MkTime(date_time, zone) == date_time.day * 86400 + date_time.sec - zone

\* one (tag, size, data) record as it lies in the archive
RecordBytes(r) == PackU16(r.tag) \o PackU16(r.size) \o r.data

RECURSIVE AreaBytes(_)
AreaBytes(rs) == IF rs = << >> THEN << >> ELSE RecordBytes(Head(rs)) \o AreaBytes(Tail(rs))

\* raw.read(ex_len): the first raw.avail bytes of the area
ReadExtra(r) == SubSeq(AreaBytes(r.records), 1, r.avail)

NoMtime == [set |-> FALSE, v |-> 0]

\* raw.seek(info.header_offset + 26); struct.unpack("<HH", raw.read(4));
\* raw.seek(fn_len, 1); extra = raw.read(ex_len); i = 0
ReadLocalHeader ==
    /\ mpc = "header"
    /\ IF raw.header_ok
       THEN /\ extra' = ReadExtra(raw)
            /\ mpc' = "scan"
       ELSE /\ extra' = extra
            /\ mpc' = IF StructError \in Caught THEN "coarse" ELSE "raised"
    /\ ex_i' = 0
    /\ UNCHANGED << raw, info, tz, mtime >>
    /\ UNCHANGED << mainVars, avatarVars >>

\* one turn of the while loop, or its exit
ScanExtra ==
    /\ mpc = "scan"
    /\ IF ex_i + 4 > Len(extra)
       THEN /\ mpc' = "coarse"
            /\ UNCHANGED << ex_i, mtime >>
       ELSE LET tag == UnpackU16(extra, ex_i)
                size == UnpackU16(extra, ex_i + 2)
                i == ex_i + 4
            IN  IF tag = ExtTimestampTag /\ size >= 5
                THEN IF i >= Len(extra)
                     THEN \* extra[i] raises IndexError
                          /\ mpc' = IF IndexError \in Caught THEN "coarse" ELSE "raised"
                          /\ ex_i' = i
                          /\ mtime' = mtime
                     ELSE IF extra[i + 1] % 2 = 1
                          THEN IF i + 5 > Len(extra)
                               THEN \* unpack_from raises struct.error
                                    /\ mpc' = IF StructError \in Caught
                                              THEN "coarse" ELSE "raised"
                                    /\ ex_i' = i
                                    /\ mtime' = mtime
                               ELSE /\ mtime' = [set |-> TRUE, v |-> UnpackU32(extra, i + 1)]
                                    /\ mpc' = "done"
                                    /\ ex_i' = i
                          ELSE /\ ex_i' = i + size
                               /\ UNCHANGED << mpc, mtime >>
                ELSE /\ ex_i' = i + size
                     /\ UNCHANGED << mpc, mtime >>
    /\ UNCHANGED << raw, info, tz, extra >>
    /\ UNCHANGED << mainVars, avatarVars >>

\* return time.mktime(info.date_time + (0, 0, -1))
CoarseMtime ==
    /\ mpc = "coarse"
    /\ mtime' = [set |-> TRUE, v |-> MkTime(info.date_time, tz)]
    /\ mpc' = "done"
    /\ UNCHANGED << raw, info, tz, extra, ex_i >>
    /\ UNCHANGED << mainVars, avatarVars >>

MtimeIdle ==
    /\ mpc = "idle"
    /\ raw = [header_ok |-> FALSE, records |-> << >>, avail |-> 0]
    /\ info = [date_time |-> [day |-> 0, sec |-> 0]]
    /\ tz = 0
    /\ extra = << >>
    /\ ex_i = 0
    /\ mtime = NoMtime

----------------------------------------------------------------------------
(* generate_bitmoji_assets (src/bitmoji.py) *)
(* A string is the sequence of its code points.                            *)

MaxUsers == 3

\* "a_", "a~", "a_-797c7b", "A_", " ", "user"
UserPool ==
    { << 97, 95 >>, << 97, 126 >>, << 97, 95, 45, 55, 57, 55, 99, 55, 98 >>,
      << 65, 95 >>, << 32 >>, << 117, 115, 101, 114 >> }

\* hashlib.sha1(username.encode("utf-8")).hexdigest()[:6]
Sha1Prefix(u) ==
    CASE u = << 97, 95 >> -> << 54, 51, 54, 49, 55, 97 >>                          \* 63617a
      [] u = << 97, 126 >> -> << 55, 57, 55, 99, 55, 98 >>                         \* 797c7b
      [] u = << 97, 95, 45, 55, 57, 55, 99, 55, 98 >> -> << 49, 51, 56, 97, 100, 99 >> \* 138adc
      [] u = << 65, 95 >> -> << 49, 99, 52, 98, 97, 100 >>                         \* 1c4bad
      [] u = << 32 >> -> << 98, 56, 53, 56, 99, 98 >>                              \* b858cb
      [] u = << 117, 115, 101, 114 >> -> << 49, 50, 100, 101, 97, 57 >>            \* 12dea9

\* str.strip(): whitespace is cut from both ends
IsSpace(c) == c = 32 \/ c \in 9 .. 13

RECURSIVE StripLeft(_)
StripLeft(s) ==
    IF s # << >> /\ IsSpace(Head(s)) THEN StripLeft(Tail(s)) ELSE s

RECURSIVE StripRight(_)
StripRight(s) ==
    IF s # << >> /\ IsSpace(s[Len(s)]) THEN StripRight(SubSeq(s, 1, Len(s) - 1)) ELSE s

Strip(s) == StripRight(StripLeft(s))

\* str.lower() on the code points below 128
Lower(s) == [ i \in 1 .. Len(s) |-> IF s[i] \in 65 .. 90 THEN s[i] + 32 ELSE s[i] ]

\* the characters [\w\-.] keeps, below 128
IsKept(c) ==
    c \in 48 .. 57 \/ c \in 65 .. 90 \/ c \in 97 .. 122 \/ c = 95 \/ c = 45 \/ c = 46

UserStr == << 117, 115, 101, 114 >>

\* config.sanitize_filename
sanitize_filename(name) ==
    IF name = << >> THEN UserStr
    ELSE LET t == Strip(name)
         IN  [ i \in 1 .. Len(t) |-> IF IsKept(t[i]) THEN t[i] ELSE 95 ]

\* base_name of save_avatars
BaseName(username) ==
    LET sanitized == sanitize_filename(username)
        base_name == IF sanitized # << >> THEN Lower(Strip(sanitized)) ELSE UserStr
    IN  IF base_name = << >> THEN UserStr ELSE base_name

\* the order of Python strings
RECURSIVE StrLess(_, _)
StrLess(a, b) ==
    IF a = << >> THEN b # << >>
    ELSE IF b = << >> THEN FALSE
    ELSE IF Head(a) # Head(b) THEN Head(a) < Head(b)
    ELSE StrLess(Tail(a), Tail(b))

\* sorted(avatars)
RECURSIVE SortedStrs(_)
SortedStrs(S) ==
    IF S = {} THEN << >>
    ELSE LET m == CHOOSE x \in S : \A y \in S \ { x } : StrLess(x, y)
         IN  << m >> \o SortedStrs(S \ { m })

\* f"bitmoji/{candidate}.svg"
RelPath(candidate) ==
    << 98, 105, 116, 109, 111, 106, 105, 47 >> \o candidate \o << 46, 115, 118, 103 >>

NoAvatar == [set |-> FALSE, status |-> "none"]
NoPath == [set |-> FALSE, path |-> << >>]

\* used_names as the set of its items
UsedHas(used, c) == \E e \in used : e.name = c
UsedGet(used, c) == (CHOOSE e \in used : e.name = c).owner
UsedPut(used, c, u) == { e \in used : e.name # c } \cup { [name |-> c, owner |-> u] }

\* generate_bitmoji_assets up to the submits of get_all_avatars
SubmitAll ==
    /\ apc = "start"
    /\ IF usernames = {}
       THEN /\ apc' = "returned"
            /\ futures' = futures
       ELSE /\ apc' = "fetch"
            /\ futures' = [ u \in UserPool |-> IF u \in usernames THEN "running" ELSE "none" ]
    /\ UNCHANGED << usernames, fetch_ok, avatars, used_names, user_to_path, save_i >>
    /\ UNCHANGED << mainVars, mtimeVars >>

\* a worker thread returns from get_avatar(u): its future is done
GetAvatar(u) ==
    /\ apc = "fetch"
    /\ futures[u] = "running"
    /\ futures' = [futures EXCEPT ![u] = "done"]
    /\ UNCHANGED << apc, usernames, fetch_ok, avatars, used_names, user_to_path, save_i >>
    /\ UNCHANGED << mainVars, mtimeVars >>

\* get_avatar's result: the fetched image, or the fallback on any failure
AvatarResult(u, ok) ==
    [set |-> TRUE, status |-> IF u \in ok THEN "success" ELSE "fallback"]

\* as_completed yields a done future; the loop body stores its result.  The
\* with block is left after the last one and save_avatars begins.
AsCompleted(u) ==
    /\ apc = "fetch"
    /\ futures[u] = "done"
    /\ futures' = [futures EXCEPT ![u] = "yielded"]
    /\ avatars' = [avatars EXCEPT ![u] = AvatarResult(u, fetch_ok)]
    /\ apc' = IF \A v \in usernames \ { u } : futures[v] = "yielded"
              THEN "save" ELSE "fetch"
    /\ UNCHANGED << usernames, fetch_ok, used_names, user_to_path, save_i >>
    /\ UNCHANGED << mainVars, mtimeVars >>

AvatarKeys(av) == { u \in UserPool : av[u].set }

\* the candidate save_avatars settles on for username
Candidate(used, username) ==
    LET base_name == BaseName(username)
    IN  IF UsedHas(used, base_name) /\ UsedGet(used, base_name) # username
        THEN base_name \o << 45 >> \o Sha1Prefix(username)
        ELSE base_name

\* one turn of the loop of save_avatars, and its return after the last one
SaveAvatar ==
    /\ apc = "save"
    /\ LET order == SortedStrs(AvatarKeys(avatars))
           username == order[save_i + 1]
           candidate == Candidate(used_names, username)
       IN  /\ used_names' = UsedPut(used_names, candidate, username)
           /\ user_to_path' = [user_to_path EXCEPT
                                  ![username] = [set |-> TRUE, path |-> RelPath(candidate)]]
           /\ save_i' = save_i + 1
           /\ apc' = IF save_i + 1 = Len(order) THEN "returned" ELSE "save"
    /\ UNCHANGED << usernames, fetch_ok, futures, avatars >>
    /\ UNCHANGED << mainVars, mtimeVars >>

AvatarRest ==
    /\ futures = [ u \in UserPool |-> "none" ]
    /\ avatars = [ u \in UserPool |-> NoAvatar ]
    /\ used_names = {}
    /\ user_to_path = [ u \in UserPool |-> NoPath ]
    /\ save_i = 0

AvatarIdle ==
    /\ apc = "idle"
    /\ usernames = {}
    /\ fetch_ok = {}
    /\ AvatarRest

----------------------------------------------------------------------------
(* Inputs *)

ChatIn(cid, has, d, t, field) ==
    [src |-> "chat", cid |-> cid, m |-> RawMsg(has, d, t, field)]
SnapIn(cid, has, d, t, field) ==
    [src |-> "snap", cid |-> cid, m |-> RawMsg(has, d, t, field)]

MsgPool ==
    << ChatIn("u1", TRUE, 1, 100000, << >>),
       ChatIn("u1", TRUE, 1, 40000, << >>),
       ChatIn("u1", TRUE, 1, 40000, << Tok(1, 1) >>),
       ChatIn("u1", TRUE, 2, 100000, << Tok(2, 1) >>),
       ChatIn("g-1", TRUE, 2, 40000, << Tok(1, 1), BlankTok, Tok(0, 1) >>),
       SnapIn("g-1", TRUE, 1, 100000, << Tok(1, 1) >>),
       ChatIn("u1", FALSE, 1, 40000, << >>),
       ChatIn("u2", TRUE, 3, 40000, << >>) >>

FilePool ==
    << File(1, 1, { "_b~" }, 70000),
       File(1, 2, { "_media~" }, 69000),
       File(2, 3, { "_media~" }, 10000),
       File(2, 4, { "_media~", "~zip-" }, 9999),
       File(3, 1, { "_b~" }, 100000),
       File(0, 6, { "_media~" }, 40000),
       File(1, 7, { "_overlay~" }, 70000) >>

\* index sequences of length n over 1 .. k, non-decreasing
RECURSIVE Ascending(_, _)
Ascending(k, n) ==
    IF n = 0 THEN { << >> }
    ELSE { Append(s, i) : s \in Ascending(k, n - 1), i \in 1 .. k }
         \cap { s \in [1 .. n -> 1 .. k] : \A j \in 1 .. n - 1 : s[j] <= s[j + 1] }

\* index sequences of length n over 1 .. k, strictly increasing or strictly
\* decreasing: a directory listing in one order or the opposite one
Monotone(k, n) ==
    { s \in [1 .. n -> 1 .. k] :
        \/ \A j \in 1 .. n - 1 : s[j] < s[j + 1]
        \/ \A j \in 1 .. n - 1 : s[j] > s[j + 1] }

\* a collection {cid: [messages]} from the chosen messages of one source;
\* uid is << source, cid, place in the conversation's list >>
RECURSIVE Collect(_, _)
Collect(src, ins) ==
    IF ins = << >> THEN << >>
    ELSE LET rest == Collect(src, SubSeq(ins, 1, Len(ins) - 1))
             x == ins[Len(ins)]
             n == IF \E c \in 1 .. Len(rest) : rest[c].cid = x.cid
                  THEN Len((CHOOSE e \in Range(rest) : e.cid = x.cid).msgs)
                  ELSE 0
         IN  IF x.src = src
             THEN AppendToConv(rest, x.cid, [x.m EXCEPT !.uid = << src, x.cid, n + 1 >>])
             ELSE rest

InitRest ==
    /\ b_lookup = << >>
    /\ other_files = << >>
    /\ overlay_pairs = {}
    /\ days = EmptyDays
    /\ matched_b = {}
    /\ len1 = << >>
    /\ ts_files = << >>
    /\ ts_i = 0
    /\ log = << >>
    /\ docs = [ d \in Days |-> NoDoc ]
    /\ outFs = {}
    /\ prevDocs = [ d \in Days |-> NoDoc ]
    /\ prevFs = {}
    /\ runs = 0

Init ==
    /\ nZips \in 0 .. 1
    /\ hasHistory \in BOOLEAN
    /\ nZips = 0 => ~hasHistory
    /\ \E n \in 0 .. MaxMsgs : \E s \in Ascending(Len(MsgPool), n) :
          LET ins == [ i \in 1 .. n |-> MsgPool[s[i]] ]
          IN  /\ hasHistory \/ n = 0
              /\ chat_data = Collect("chat", ins)
              /\ snap_data = Collect("snap", ins)
    /\ \E n \in 0 .. MaxFiles : \E s \in Monotone(Len(FilePool), n) :
          /\ nZips > 0 \/ n = 0
          /\ listing = [ i \in 1 .. n |-> FilePool[s[i]] ]
    /\ gone \in { g \in SUBSET { f.name : f \in { x \in Range(listing) : IsB(x.name) } } :
                   Cardinality(g) <= 1 }
    /\ pc = "extract"
    /\ InitRest
    /\ MtimeIdle
    /\ AvatarIdle

Next ==
    \/ ExtractZips
    \/ LoadHistory
    \/ ClassifyMedia
    \/ BuildDays
    \/ MatchById
    \/ MatchByTimestamp
    \/ WriteOutput
    \/ WriteOutputAgain
    \/ GenerateAvatars

Spec == Init /\ [][Next]_vars

----------------------------------------------------------------------------
(* classify_media on its own, over larger listings *)

ClassPool ==
    { Name(1, 1, { "_media~" }), Name(1, 3, { "_media~" }), Name(1, 5, { "_media~" }),
      Name(1, 2, { "_overlay~" }), Name(1, 4, { "_overlay~" }), Name(1, 6, { "_overlay~" }),
      Name(1, 7, { "_media~", "~zip-" }), Name(1, 8, { "_overlay~", "~zip-" }),
      Name(2, 1, { "_media~" }), Name(2, 2, { "_overlay~" }),
      Name(1, 9, { "_media~", "thumbnail" }),
      Name(1, 10, { "_overlay~", "_media~" }) }

Reverse(s) == [ i \in 1 .. Len(s) |-> s[Len(s) + 1 - i] ]

InitClassify ==
    /\ nZips = 1
    /\ hasHistory = TRUE
    /\ chat_data = << >>
    /\ snap_data = << >>
    /\ gone = {}
    /\ \E ns \in { x \in SUBSET ClassPool : Cardinality(x) <= MaxListing } :
          LET asc == [ i \in 1 .. Cardinality(ns) |->
                       [name |-> SortNames(ns)[i], mtime |-> 0] ]
          IN  listing \in { asc, Reverse(asc) }
    /\ pc = "classify"
    /\ InitRest
    /\ MtimeIdle
    /\ AvatarIdle

SpecClassify == InitClassify /\ [][ClassifyMedia]_vars

----------------------------------------------------------------------------
(* get_local_mtime on its own, over extra-field areas *)

\* the main pipeline is not running
MainIdle ==
    /\ pc = "idle"
    /\ nZips = 0
    /\ hasHistory = FALSE
    /\ chat_data = << >>
    /\ snap_data = << >>
    /\ listing = << >>
    /\ gone = {}
    /\ InitRest

Rec(tag, data, utc) == [tag |-> tag, size |-> Len(data), data |-> data, utc |-> utc]

\* (tag, size, data) records; utc is the time the data encodes, 0 for none
RecPool ==
    << Rec(21589, << 1, 120, 86, 52, 18 >>, 305419896),
       Rec(21589, << 1, 0, 0, 0, 127 >>, 2130706432),
       Rec(21589, << 3, 1, 0, 0, 0, 2, 0, 0, 0 >>, 1),
       Rec(21589, << 2, 7, 0, 0, 0 >>, 0),
       Rec(21589, << 1 >>, 0),
       Rec(21844, << 1, 9, 0, 0, 0 >>, 0),
       Rec(10, << >>, 0) >>

\* stored date-times: 2024-01-01 12:00:00 and 1980-01-01 00:00:00
DateTimes == { [day |-> 19723, sec |-> 43200], [day |-> 3652, sec |-> 0] }

\* local zones: UTC and UTC+1
Zones == { 0, 3600 }

InitMtime ==
    /\ MainIdle
    /\ AvatarIdle
    /\ mpc = "header"
    /\ \E n \in 0 .. MaxRecords : \E s \in [1 .. n -> 1 .. Len(RecPool)] :
          LET rs == [ i \in 1 .. n |-> RecPool[s[i]] ]
          IN  \E ok \in BOOLEAN : \E a \in 0 .. Len(AreaBytes(rs)) :
                 /\ ok \/ (n = 0 /\ a = 0)
                 /\ raw = [header_ok |-> ok, records |-> rs, avail |-> a]
    /\ info \in { [date_time |-> dt] : dt \in DateTimes }
    /\ tz \in Zones
    /\ extra = << >>
    /\ ex_i = 0
    /\ mtime = NoMtime

NextMtime ==
    \/ ReadLocalHeader
    \/ ScanExtra
    \/ CoarseMtime

SpecMtime == InitMtime /\ [][NextMtime]_vars

----------------------------------------------------------------------------
(* generate_bitmoji_assets on its own, called with its two arguments *)

InitAvatars ==
    /\ MainIdle
    /\ MtimeIdle
    /\ apc = "start"
    /\ usernames \in { S \in SUBSET UserPool : Cardinality(S) <= MaxUsers }
    /\ fetch_ok \in SUBSET usernames
    /\ AvatarRest

NextAvatars ==
    \/ SubmitAll
    \/ \E u \in UserPool : GetAvatar(u)
    \/ \E u \in UserPool : AsCompleted(u)
    \/ SaveAvatar

SpecAvatars == InitAvatars /\ [][NextAvatars]_vars

----------------------------------------------------------------------------
(* Vocabulary of the properties *)

AfterBuild == { "pass1", "pass2", "write", "avatars" }
AfterPass1 == { "pass2", "write", "avatars" }

\* every place [d, c, k] of a message in a day structure
Places(ds) == UNION { Range(DayPositions(ds, d)) : d \in DOMAIN ds }

\* how often name n stands in the matched list of message m
CountIn(m, n) ==
    Cardinality({ i \in 1 .. Len(m.media_filenames) : m.media_filenames[i] = n })

\* how often name n stands in all matched lists together
Occurrences(ds, n) ==
    Sum([ i \in 1 .. Len(AllMsgs(ds)) |-> CountIn(AllMsgs(ds)[i], n) ])

\* the names message m got from pass 1, and those it got from pass 2
FromPass1(m) == Range(SubSeq(m.media_filenames, 1, len1[m.uid]))
FromPass2(m) ==
    Range(SubSeq(m.media_filenames, len1[m.uid] + 1, Len(m.media_filenames)))

PoolNames == { f.name : f \in Range(AllMediaFiles(b_lookup, other_files)) }

----------------------------------------------------------------------------
(* C6 *)

\* C6 (partition invariant): once build_days has run, every input message
\* stands in exactly one place of the day structure, in the bucket of its
\* Created day and under its own conversation id, and the day structure
\* holds no other message; the correlation passes and write_output keep it so.
C6_Partition ==
    pc \in AfterBuild =>
        LET places == Places(days)
            inputs == InputPairs
        IN  /\ \A x \in Range(inputs) :
                  /\ Cardinality({ p \in places : MsgAt(days, p).uid = x.m.uid }) = 1
                  /\ \A p \in places :
                        MsgAt(days, p).uid = x.m.uid =>
                            /\ p.d = x.m.day
                            /\ days[p.d][p.c].cid = x.cid
                            /\ MsgAt(days, p).us = x.m.us
                            /\ MsgAt(days, p).Type = x.m.Type
            /\ Cardinality(places) = Len(inputs)

\* a chat and a snap collection, two day buckets, output written twice
C6_Witness ==
    /\ pc = "avatars"
    /\ runs = 2
    /\ chat_data # << >>
    /\ snap_data # << >>
    /\ Cardinality(DayKeys(days)) = 2

----------------------------------------------------------------------------
(* C2 *)

\* the "Media IDs" field of m has a part that, trimmed and with one "b~"
\* removed, is the identifier of entry e of the lookup
Names(m, e) ==
    \E i \in 1 .. Len(m.mids) :
        /\ ~m.mids[i].blank
        /\ m.mids[i].npre <= 1
        /\ e.mid = [npre |-> 0, id |-> m.mids[i].id]

\* C2 (identifier-match precedence): after pass 1, a file of the identifier
\* lookup that a message's Media IDs field names is in that message's matched
\* list, put there by pass 1; it is no pass-2 candidate and pass 2 appends it
\* to no other message.
C2_IdPrecedence ==
    pc \in AfterPass1 =>
        \A p \in Places(days) : \A e \in Range(b_lookup) :
            Names(MsgAt(days, p), e) =>
                /\ e.f.name \in FromPass1(MsgAt(days, p))
                /\ \A i \in 1 .. Len(ts_files) : ts_files[i].f.name # e.f.name
                /\ \A q \in Places(days) \ { p } :
                      e.f.name \notin FromPass2(MsgAt(days, q))

\* a message got a file by identifier and pass 2 matched another file
C2_Witness ==
    /\ pc = "avatars"
    /\ \E p \in Places(days) : \E e \in Range(b_lookup) : Names(MsgAt(days, p), e)
    /\ \E q \in Places(days) : FromPass2(MsgAt(days, q)) # {}

----------------------------------------------------------------------------
(* C3 *)

\* C3 (single claim per file): after pass 1, and after both passes, no file
\* name stands more than once in the matched lists of all messages together.
C3_SingleClaim ==
    pc \in AfterPass1 => \A n \in PoolNames : Occurrences(days, n) <= 1

----------------------------------------------------------------------------
(* Pass 2, as the properties see it: en is an entry of log *)

\* the messages of the candidate's day and of the two adjacent days
Window(en) ==
    { p \in Places(en.before) : p.d \in { en.e.day - 1, en.e.day, en.e.day + 1 } }

Raw(en, p) ==
    LET x == MsgAt(en.before, p).us - en.e.mtime_ms IN IF x < 0 THEN -x ELSE x

Prior(en, p) == Len(MsgAt(en.before, p).media_filenames)

Score(en, p) == Raw(en, p) + Penalty * Prior(en, p)

Lowest(en) ==
    LET w == Window(en) IN { p \in w : \A q \in w : Score(en, p) <= Score(en, q) }

\* the place of p in the order pass 2 meets the messages
Met(en, p) ==
    LET met == Encounter(en.before, en.e.day)
    IN  CHOOSE i \in 1 .. Len(met) : met[i] = p

FirstLowest(en, p) ==
    p \in Lowest(en) /\ \A q \in Lowest(en) \ { p } : Met(en, p) < Met(en, q)

AppendedTo(en, p) ==
    en.after = [en.before EXCEPT ![p.d][p.c].msgs[p.k].media_filenames =
                                     Append(@, en.e.f.name)]

Unmatched(en) == en.after = en.before

----------------------------------------------------------------------------
(* C4 *)

\* C4 (threshold boundary): in every pass-2 iteration the selected message
\* has the lowest ranked score of the window; the file is appended to it when
\* its raw difference is at most 30000 and to no message when its raw
\* difference is 30001 or more, whatever its ranked score.
C4_Threshold ==
    \A i \in 1 .. Len(log) :
        LET en == log[i]
            raw_best == Raw(en, en.best.pos)
        IN  IF Window(en) = {} THEN Unmatched(en)
            ELSE /\ en.best.set
                 /\ en.best.pos \in Lowest(en)
                 /\ raw_best <= Threshold => AppendedTo(en, en.best.pos)
                 /\ raw_best >= Threshold + 1 => Unmatched(en)

\* one file matched at a raw difference of exactly 30000 and another left
\* unmatched at 30001
C4_Witness ==
    \E i, j \in 1 .. Len(log) :
        /\ log[i].best.set
        /\ Raw(log[i], log[i].best.pos) = Threshold
        /\ AppendedTo(log[i], log[i].best.pos)
        /\ log[j].best.set
        /\ Raw(log[j], log[j].best.pos) = Threshold + 1
        /\ Unmatched(log[j])

----------------------------------------------------------------------------
(* C5 *)

\* two messages of the window at equal raw distance, a with one matched file
\* and b with none
Equidistant(en, a, b) ==
    /\ a \in Window(en)
    /\ b \in Window(en)
    /\ Raw(en, a) = Raw(en, b)
    /\ Prior(en, a) = 1
    /\ Prior(en, b) = 0

\* C5 (penalty spreading): the ranked score of the selected message is its
\* raw difference plus 5000 for each file it already holds; of two
\* equidistant messages, one holding one file and one holding none, the file
\* never goes to the one holding a file, and it goes to the other one when
\* that one is the first met with the lowest ranked score and its raw
\* difference is at most 30000.
C5_Spreading ==
    \A i \in 1 .. Len(log) :
        LET en == log[i]
            w  == Window(en)
            given == { a \in w : Prior(en, a) = 1 }
            free  == { b \in w : Prior(en, b) = 0 }
        IN  /\ en.best.set => en.best.ranked = Score(en, en.best.pos)
            /\ \A a \in given : \A b \in free :
                  Raw(en, a) = Raw(en, b) =>
                      /\ ~AppendedTo(en, a)
                      /\ (Raw(en, b) <= Threshold /\ FirstLowest(en, b))
                            => AppendedTo(en, b)

\* the message holding a file is met first, and the file goes to the other
C5_Witness ==
    \E i \in 1 .. Len(log) : \E a, b \in Window(log[i]) :
        /\ Equidistant(log[i], a, b)
        /\ Met(log[i], a) < Met(log[i], b)
        /\ AppendedTo(log[i], b)

----------------------------------------------------------------------------
(* C7 *)

\* C7 (idempotent output): a second run of write_output on the day structure
\* and inventory of the first writes the same document for every day and
\* leaves the same files under output/days.
C7_Idempotent ==
    (pc = "avatars" /\ runs >= 2) => (docs = prevDocs /\ outFs = prevFs)

\* two runs, with a day that has mapped media and a day that has an orphan
C7_Witness ==
    /\ pc = "avatars"
    /\ runs = 2
    /\ \E d \in Days : docs[d].written /\ docs[d].mediaCount >= 1
    /\ \E d \in Days : docs[d].written /\ docs[d].orphaned_media_count >= 1
    /\ outFs # {}

----------------------------------------------------------------------------
(* C1 *)

\* the messages whose matched list holds name n
Holders(n) == { p \in Places(days) : CountIn(MsgAt(days, p), n) >= 1 }

\* n stands in the orphan list of the document of its own day
Orphaned(n) ==
    /\ DayPrefix(n) \in DOMAIN docs
    /\ docs[DayPrefix(n)].written
    /\ n \in Range(docs[DayPrefix(n)].orphaned_media)

\* C1 (orphan completeness): after match_media and write_output every file
\* of the media pool is either in the matched list of exactly one message or
\* in the orphan list of its day's document, never both and never neither.
C1_OrphanComplete ==
    pc = "avatars" =>
        \A n \in PoolNames :
            \/ Cardinality(Holders(n)) = 1 /\ ~Orphaned(n)
            \/ Holders(n) = {} /\ Orphaned(n)

----------------------------------------------------------------------------
(* C9 *)

\* C9 (failure containment): a run stops early only by sys.exit on an empty
\* input directory; no other condition aborts it.
C9_Contained == pc # "crashed"

----------------------------------------------------------------------------
(* C10 *)

\* C10 (mapping method): an annotated message is marked "media_id" only if
\* pass 1 appended one of its files, and "timestamp" only if pass 2 appended
\* its files.
C10_Method ==
    pc = "avatars" =>
        \A p \in Places(days) :
            LET m == MsgAt(days, p)
            IN  m.ann.set =>
                    /\ m.ann.mapping_method = "media_id" => FromPass1(m) # {}
                    /\ m.ann.mapping_method = "timestamp" =>
                          (FromPass1(m) = {} /\ FromPass2(m) # {})

----------------------------------------------------------------------------
(* C8 *)

\* the primaries and the overlays of the listing for a day and an
\* archive-origin flag
Primaries(d, z) ==
    { f \in Range(listing) :
        /\ "thumbnail" \notin f.name.marks
        /\ "_overlay~" \notin f.name.marks
        /\ "_media~" \in f.name.marks
        /\ f.name.day = d
        /\ ("~zip-" \in f.name.marks) = z }

Overlays(d, z) ==
    { f \in Range(listing) :
        /\ "thumbnail" \notin f.name.marks
        /\ "_overlay~" \in f.name.marks
        /\ f.name.day = d
        /\ ("~zip-" \in f.name.marks) = z }

\* the number of files of S before f in filename order
RankIn(S, f) == Cardinality({ g \in S : NameLess(g.name, f.name) })

ListingDays == { f.name.day : f \in Range(listing) }

\* C8 (overlay pairing conservatism): a group whose primary and overlay
\* counts differ gets no pairing; in a group of equal counts the i-th primary
\* in filename order is paired with the i-th overlay in filename order; every
\* pairing joins a primary and an overlay of one day and one archive-origin
\* flag.
C8_Pairing ==
    pc = "build" =>
        /\ \A d \in ListingDays : \A z \in BOOLEAN :
              LET P == Primaries(d, z)
                  O == Overlays(d, z)
              IN  /\ Cardinality(P) # Cardinality(O) =>
                        \A f \in P : f.name \notin PairKeys(overlay_pairs)
                  /\ Cardinality(P) = Cardinality(O) =>
                        \A f \in P :
                            /\ Cardinality({ q \in overlay_pairs : q.p = f.name }) = 1
                            /\ \E q \in overlay_pairs :
                                  /\ q.p = f.name
                                  /\ q.o \in O
                                  /\ RankIn(O, q.o) = RankIn(P, f)
        /\ \A q \in overlay_pairs :
              \E d \in ListingDays : \E z \in BOOLEAN :
                  /\ q.p \in { f.name : f \in Primaries(d, z) }
                  /\ q.o \in Overlays(d, z)

\* a group of 3 primaries and 2 overlays beside a group that is paired
C8_Witness ==
    /\ pc = "build"
    /\ \E d \in ListingDays : \E z \in BOOLEAN :
          Cardinality(Primaries(d, z)) = 3 /\ Cardinality(Overlays(d, z)) = 2
    /\ overlay_pairs # {}

----------------------------------------------------------------------------
(* Timestamp extraction *)

\* where record k of the area begins, counted from 0
RecOffset(rs, k) == Len(AreaBytes(SubSeq(rs, 1, k - 1)))

\* an extended-timestamp record that carries a modification time
Qualifies(r) == r.tag = ExtTimestampTag /\ r.size >= 5 /\ r.data[1] % 2 = 1

Qualifying(rs) == { k \in 1 .. Len(rs) : Qualifies(rs[k]) }

FirstQualifying(rs) == CHOOSE k \in Qualifying(rs) : \A j \in Qualifying(rs) : k <= j

\* the header, and the first qualifying record up to its data byte 4, can
\* be read
ReadableStamp(r) ==
    /\ r.header_ok
    /\ Qualifying(r.records) # {}
    /\ r.avail >= RecOffset(r.records, FirstQualifying(r.records)) + 9

\* C11 (timestamp extraction): get_local_mtime never raises, and what it
\* returns is the time encoded at data bytes 1..4 of the first record with
\* tag 0x5455, size >= 5 and bit 0 of its first data byte set, when the
\* header and that record can be read; in every other case it is the stored
\* date-time converted as local time.
C11_Mtime ==
    /\ mpc # "raised"
    /\ mpc = "done" =>
          /\ mtime.set
          /\ mtime.v = IF ReadableStamp(raw)
                       THEN raw.records[FirstQualifying(raw.records)].utc
                       ELSE MkTime(info.date_time, tz)

\* a whole area whose first record has the tag but no modification time and
\* whose second record qualifies: the second record's time was returned
C11_Witness ==
    /\ mpc = "done"
    /\ raw.header_ok
    /\ Len(raw.records) >= 2
    /\ raw.avail = Len(AreaBytes(raw.records))
    /\ raw.records[1].tag = ExtTimestampTag
    /\ ~Qualifies(raw.records[1])
    /\ Qualifies(raw.records[2])
    /\ mtime.v = raw.records[2].utc
    /\ mtime.v # MkTime(info.date_time, tz)

----------------------------------------------------------------------------
(* Avatar provider *)

\* C12 (avatar provider completeness): when generate_bitmoji_assets has
\* returned for a non-empty set of usernames, every username has an entry
\* in the mapping and distinct usernames have distinct paths, whatever
\* fetches failed and in whatever order the workers completed.
C12_AvatarComplete ==
    (apc = "returned" /\ usernames # {}) =>
        /\ \A u \in usernames : user_to_path[u].set
        /\ \A u, v \in usernames :
              u # v => user_to_path[u].path # user_to_path[v].path

----------------------------------------------------------------------------
(* Tie-breaking *)

\* the turn of the day of p among the days pass 2 visits for the candidate
DayTurn(en, p) ==
    IF p.d = en.e.day THEN 0 ELSE IF p.d = en.e.day - 1 THEN 1 ELSE 2

\* p is encountered before q: by day (own, day-1, day+1), then by
\* conversation in bucket order, then by place in the conversation's list
MetBefore(en, p, q) ==
    \/ DayTurn(en, p) < DayTurn(en, q)
    \/ DayTurn(en, p) = DayTurn(en, q) /\ p.c < q.c
    \/ DayTurn(en, p) = DayTurn(en, q) /\ p.c = q.c /\ p.k < q.k

\* every conversation list of ds ascends by creation timestamp
TimeSorted(ds) ==
    \A d \in DOMAIN ds : \A c \in 1 .. Len(ds[d]) :
        \A j \in 1 .. Len(ds[d][c].msgs) - 1 :
            ds[d][c].msgs[j].us <= ds[d][c].msgs[j + 1].us

\* C13 (tie-breaking by encounter order): from pass 1 on, and so at every
\* pass-2 comparison, each per-day conversation list ascends by creation
\* timestamp; the message pass 2 selects has the lowest ranked score of the
\* window and, among the messages sharing that score, is the one met first
\* in the order own day, day-1, day+1, then conversation, then place in the
\* sorted list.
C13_TieBreak ==
    /\ pc \in AfterPass1 => TimeSorted(days)
    /\ \A i \in 1 .. Len(log) :
          LET en == log[i]
              w == Window(en)
              at == en.best.pos
          IN  w # {} =>
                 /\ en.best.set
                 /\ at \in w
                 /\ \A q \in w \ { at } :
                       \/ Score(en, at) < Score(en, q)
                       \/ Score(en, at) = Score(en, q) /\ MetBefore(en, at, q)

\* a conversation whose history list does not ascend, two of its messages
\* sharing the lowest ranked score for a file, and the file appended to the
\* one that is first after the sort
C13_Witness ==
    /\ \E c \in 1 .. Len(chat_data) : \E j \in 1 .. Len(chat_data[c].msgs) - 1 :
          chat_data[c].msgs[j].us > chat_data[c].msgs[j + 1].us
    /\ \E i \in 1 .. Len(log) : \E p, q \in Lowest(log[i]) :
          /\ p.d = q.d /\ p.c = q.c /\ p.k < q.k
          /\ log[i].best.pos = p
          /\ AppendedTo(log[i], p)

----------------------------------------------------------------------------
(* Window completeness *)

\* C14 (window completeness of pass 2): in every pass-2 iteration, when some
\* message of the candidate's day or of the two adjacent days has a raw
\* difference of at most 30000, the file is appended to a message whose raw
\* difference is at most 30000, however many files the messages of the
\* window already hold.
C14_WindowComplete ==
    \A i \in 1 .. Len(log) :
        LET en == log[i]
        IN  (\E p \in Window(en) : Raw(en, p) <= Threshold) =>
                \E q \in Window(en) : Raw(en, q) <= Threshold /\ AppendedTo(en, q)

====
